---- MODULE Spec2Model ----
(***************************************************************************)
(* Model of mkmonster.py: the Monster object with its decorator chain      *)
(* (AdjustedMonster, AtksPerRoundAdjustment, ResistantAdjustment), the     *)
(* quality adjustments good/poor, the threat evaluation, the size          *)
(* classification and the command-line run of the script.                  *)
(*                                                                         *)
(* Two specifications are given over the same variables:                   *)
(*   Spec      the Monster objects used through their methods              *)
(*   MainSpec  one run of the script: parse_args, lines 590-603            *)
(*                                                                         *)
(* Python values that can be an int or None or an object are tagged        *)
(* records ([t |-> "int", v |-> n], [t |-> "None"], [t |-> "Count", ...]); *)
(* str values that the code inspects are sequences of characters.          *)
(***************************************************************************)
EXTENDS Integers, Sequences, FiniteSets, TLC

\* ------------------------------------------------------------------------
\* Bounds of the model
\* ------------------------------------------------------------------------
MaxCount == 22   \* numeric count arguments are "0" .. "MaxCount"
MaxApr   == 3    \* numeric --apr arguments are "0" .. "MaxApr"
MaxLevel == 5    \* numeric level arguments are "0" .. "MaxLevel"
MaxWraps == 2    \* adjustment layers added on top of AdjustedMonster(Monster)
MaxStats == 1    \* length of the --good list and of the --poor list

\* ------------------------------------------------------------------------
\* Python values
\* ------------------------------------------------------------------------
None == [t |-> "None"]
PyInt(n) == [t |-> "int", v |-> n]
IsNone(x) == x.t = "None"
IsInt(x) == x.t = "int"
Raise(type, at) == [t |-> "raise", type |-> type, at |-> at]
IsRaise(x) == x.t = "raise"
NoExc == [type |-> "none", at |-> "none"]

\* ------------------------------------------------------------------------
\* str: sequences of characters
\* ------------------------------------------------------------------------
UpperCase == <<"A","B","C","D","E","F","G","H","I","J","K","L","M",
               "N","O","P","Q","R","S","T","U","V","W","X","Y","Z">>
LowerCase == <<"a","b","c","d","e","f","g","h","i","j","k","l","m",
               "n","o","p","q","r","s","t","u","v","w","x","y","z">>
DigitSeq  == <<"0","1","2","3","4","5","6","7","8","9">>

LowerChar(c) ==
    IF \E i \in 1..Len(UpperCase) : UpperCase[i] = c
    THEN LowerCase[CHOOSE i \in 1..Len(UpperCase) : UpperCase[i] = c]
    ELSE c

UpperChar(c) ==
    IF \E i \in 1..Len(LowerCase) : LowerCase[i] = c
    THEN UpperCase[CHOOSE i \in 1..Len(LowerCase) : LowerCase[i] = c]
    ELSE c

\* str.lower()
lower(s) == [i \in 1..Len(s) |-> LowerChar(s[i])]

\* str.upper()
upper(s) == [i \in 1..Len(s) |-> UpperChar(s[i])]

\* str.isnumeric(), on ASCII text
isnumeric(s) ==
    /\ Len(s) > 0
    /\ \A i \in 1..Len(s) : \E d \in 1..Len(DigitSeq) : DigitSeq[d] = s[i]

DigitVal(c) == (CHOOSE d \in 1..Len(DigitSeq) : DigitSeq[d] = c) - 1

\* int(s) for a str of decimal digits
RECURSIVE int(_)
int(s) ==
    IF Len(s) = 0 THEN 0
    ELSE 10 * int(SubSeq(s, 1, Len(s) - 1)) + DigitVal(s[Len(s)])

\* The decimal text of a natural number (the argument a user types)
RECURSIVE Decimal(_)
Decimal(n) ==
    IF n < 10 THEN <<DigitSeq[n + 1]>>
    ELSE Decimal(n \div 10) \o <<DigitSeq[(n % 10) + 1]>>

\* ------------------------------------------------------------------------
\* class Count
\* ------------------------------------------------------------------------
RangeOf(label, lo, hi, avg) == [label |-> label, r |-> <<lo, hi, avg>>]

\* Count.RANGES, in the order of the dict
RANGES == <<
    RangeOf(<<"s","o","l","o">>,     PyInt(1),  PyInt(1),  PyInt(1)),
    RangeOf(<<"p","a","i","r">>,     PyInt(2),  PyInt(2),  PyInt(2)),
    RangeOf(<<"p","a","r","t","y">>, PyInt(3),  PyInt(5),  PyInt(4)),
    RangeOf(<<"g","a","n","g">>,     PyInt(7),  PyInt(10), PyInt(8)),
    RangeOf(<<"m","o","b">>,         PyInt(11), PyInt(20), PyInt(16)),
    RangeOf(<<"a","r","m","y">>,     PyInt(21), None,      None) >>

\* Count(size_label, count): count is an int or None
Count(size_label, count) ==
    [t |-> "Count", _label |-> lower(size_label), _int |-> count]

\* The bounds of range k with None replaced by the count (lines 46-49)
RangeLo(k, count) == IF IsNone(RANGES[k].r[1]) THEN count ELSE RANGES[k].r[1].v
RangeHi(k, count) == IF IsNone(RANGES[k].r[2]) THEN count ELSE RANGES[k].r[2].v

\* Count.from_int: the first range that contains the count, else None
from_int(count) ==
    LET hits == {k \in 1..Len(RANGES) :
                    RangeLo(k, count) <= count /\ count <= RangeHi(k, count)}
    IN  IF hits = {} THEN None
        ELSE LET k == CHOOSE j \in hits : \A h \in hits : j <= h
             IN  Count(RANGES[k].label, PyInt(count))

\* Count.from_label, for a label that is a key of RANGES
from_label(label) ==
    LET k == CHOOSE j \in 1..Len(RANGES) : RANGES[j].label = lower(label)
    IN  Count(lower(label), RANGES[k].r[3])

\* Count.__int__ as used by int(size): size is a Count or None
Count__int__(size) ==
    IF size.t = "Count" /\ IsInt(size._int) THEN size._int
    ELSE Raise("TypeError", "Monster.__init__")

\* Count.__str__: the capitalised label with the two range bounds
Count__str__(size) ==
    LET k == CHOOSE j \in 1..Len(RANGES) : RANGES[j].label = size._label
    IN  [label |-> <<UpperChar(size._label[1])>> \o Tail(size._label),
         lo |-> RANGES[k].r[1], hi |-> RANGES[k].r[2]]

\* ------------------------------------------------------------------------
\* Stat classes and the reference table
\* ------------------------------------------------------------------------
QualityStat(poor, average, good) ==
    [t |-> "QualityStat", poor |-> poor, average |-> average, good |-> good]

SizedStat(solo, pair, party, gang, mob) ==
    [solo |-> solo, pair |-> pair, party |-> party, gang |-> gang, mob |-> mob]

Tier(min, max, name, prof) ==
    [min |-> min, max |-> max, name |-> name, prof |-> prof]

TierStat(tier, ac, hp, atk, dc, dmg) ==
    [tier |-> tier, ac |-> ac, hp |-> hp, atk |-> atk, dc |-> dc, dmg |-> dmg]

\* StatRange.__contains__ on a tier's level range
Tier__contains__(tier, level) == tier.min <= level /\ level <= tier.max

\* Tier.__eq__ with a str: the names agree when both are lower-cased
Tier__eq__(tier, value) == lower(tier.name) = lower(value)

\* The table read from stats.json: a sample of two tiers whose values are
\* all different within a tier and differ from the fallback value 1.
stats == <<
    TierStat(Tier(1, 2, <<"L","o","w">>, 2),
        QualityStat(11, 13, 15),
        SizedStat(QualityStat(60, 75, 90), QualityStat(30, 37, 45),
                  QualityStat(16, 21, 26), QualityStat(8, 10, 12),
                  QualityStat(3, 5, 7)),
        QualityStat(2, 4, 6),
        QualityStat(10, 12, 14),
        SizedStat(QualityStat(19, 25, 31), QualityStat(14, 17, 20),
                  QualityStat(9, 13, 18), QualityStat(4, 6, 8),
                  QualityStat(2, 3, 5))),
    TierStat(Tier(3, 4, <<"E","p","i","c">>, 7),
        QualityStat(17, 19, 21),
        SizedStat(QualityStat(300, 375, 450), QualityStat(150, 187, 225),
                  QualityStat(80, 95, 110), QualityStat(40, 47, 55),
                  QualityStat(22, 27, 33)),
        QualityStat(9, 11, 13),
        QualityStat(18, 20, 22),
        SizedStat(QualityStat(100, 125, 151), QualityStat(50, 63, 76),
                  QualityStat(35, 43, 51), QualityStat(23, 29, 34),
                  QualityStat(6, 7, 8))) >>

\* SizedStat.from_size.  The argument is whatever the caller passes: an int,
\* a Count or None.  A Count defines neither __eq__ nor an ordering, so
\* size == 1 and size == 2 are False and 3 <= size raises TypeError; None
\* behaves the same way.
from_size(self, size) ==
    IF ~IsInt(size) THEN Raise("TypeError", "SizedStat.from_size")
    ELSE IF size.v = 1 THEN self.solo
    ELSE IF size.v = 2 THEN self.pair
    ELSE IF 3 <= size.v /\ size.v <= 6 THEN self.party
    ELSE IF 7 <= size.v /\ size.v <= 10 THEN self.gang
    ELSE IF 11 <= size.v /\ size.v <= 20 THEN self.mob
    ELSE QualityStat(1, 1, 1)

\* ------------------------------------------------------------------------
\* class Monster and its decorators.  An object is a record; a reference to
\* an object is its index in the sequence of objects, a reference to a
\* _threats dict its index in the sequence of dicts.
\* ------------------------------------------------------------------------
k_ac  == <<"a","c">>
k_hp  == <<"h","p">>
k_atk == <<"a","t","k">>
k_dc  == <<"d","c">>
k_dmg == <<"d","m","g">>

\* Monster.THREAT_STATS
THREAT_STATS == <<k_ac, k_hp, k_atk, k_dc, k_dmg>>

\* {k: 0 for k in Monster.THREAT_STATS}
NewThreats == [k \in {THREAT_STATS[j] : j \in 1..Len(THREAT_STATS)} |-> 0]

\* Monster.__init__: the object, or the exception int(self._size) raises.
\* tier is the index of the TierStat in stats, threats the new dict.
Monster__init__(tier, size, name, threats) ==
    LET n == Count__int__(size)
    IN  IF IsRaise(n) THEN n
        ELSE [t |-> "object", cls |-> "Monster",
              _base_tier |-> tier, _size |-> size, _name |-> name,
              _tier |-> tier,
              _ac   |-> stats[tier].ac.average,
              _hp   |-> from_size(stats[tier].hp, n).average,
              _atk  |-> stats[tier].atk.average,
              _dc   |-> stats[tier].dc.average,
              _dmg  |-> from_size(stats[tier].dmg, n).average,
              _threats |-> threats, _base |-> 0, _apr |-> None]

\* A variant of SharedThreats without line 403: the decorator keeps the
\* dict its own super().__init__ made
OwnThreats(objs, base, own) == own

\* The dict AdjustedMonster.__init__ leaves in self._threats: base._threats
\* (line 403), replacing the one super().__init__ made
SharedThreats(objs, base, own) == objs[base]._threats

\* AdjustedMonster.__init__ (also run by the two subclasses): own is the dict
\* that super().__init__ creates
AdjustedMonster__init__(objs, cls, base, apr, own) ==
    LET b == objs[base]
        o == Monster__init__(b._base_tier, b._size, b._name, own)
    IN  IF IsRaise(o) THEN o
        ELSE [o EXCEPT !.cls = cls, !._base = base, !._apr = apr,
                       !._threats = SharedThreats(objs, base, own)]

\* a // b on Python values: a is an int or an exception already raised, b
\* is an int or None
FloorDiv(a, b, at) ==
    IF IsRaise(a) THEN a
    ELSE IF ~IsInt(b) THEN Raise("TypeError", at)
    ELSE IF b.v = 0 THEN Raise("ZeroDivisionError", at)
    ELSE PyInt(a.v \div b.v)

\* A variant of the dmg getter that rounds the quotient up
AtksPerRoundAdjustment_dmg_RoundUp(base_dmg, apr) ==
    IF IsRaise(base_dmg) \/ ~IsInt(apr) THEN FloorDiv(base_dmg, apr, "dmg")
    ELSE FloorDiv(PyInt(base_dmg.v + apr.v - 1), apr, "dmg")

\* The dmg getter of AtksPerRoundAdjustment: self._base.dmg // self._apr
AtksPerRoundAdjustment_dmg(base_dmg, apr) ==
    FloorDiv(base_dmg, apr, "AtksPerRoundAdjustment.dmg")

\* A variant of the hp getter that rounds the half up
ResistantAdjustment_hp_RoundUp(base_hp) ==
    FloorDiv(PyInt(base_hp.v + 1), PyInt(2), "hp")

\* The hp getter of ResistantAdjustment: self._base.hp // 2
ResistantAdjustment_hp(base_hp) ==
    FloorDiv(base_hp, PyInt(2), "ResistantAdjustment.hp")

\* What a Monster's own getter returns for property p
OwnField(o, p) ==
    CASE p = "name" -> o._name
      [] p = "tier" -> PyInt(o._tier)
      [] p = "ac"   -> PyInt(o._ac)
      [] p = "hp"   -> PyInt(o._hp)
      [] p = "atk"  -> PyInt(o._atk)
      [] p = "dc"   -> PyInt(o._dc)
      [] p = "dmg"  -> PyInt(o._dmg)

\* What an AdjustedMonster's getter returns for property p, given what the
\* same property of self._base returns (lines 405-455)
Delegated(o, p, from_base) == from_base

\* Reading property p of object i: Monster reads its own field,
\* AdjustedMonster delegates to self._base, the two subclasses override one
\* getter each.  The value is tagged; a raised exception is passed on.
RECURSIVE Get(_, _, _)
Get(objs, i, p) ==
    LET o == objs[i]
    IN  IF o.cls = "Monster" THEN OwnField(o, p)
        ELSE IF o.cls = "AtksPerRoundAdjustment" /\ p = "dmg"
             THEN AtksPerRoundAdjustment_dmg(Get(objs, o._base, "dmg"), o._apr)
        ELSE IF o.cls = "ResistantAdjustment" /\ p = "hp"
             THEN ResistantAdjustment_hp(Get(objs, o._base, "hp"))
        ELSE Delegated(o, p, Get(objs, o._base, p))

\* Assigning val to property p of object i.  Monster's setter stores into
\* its own field, AdjustedMonster's setter assigns to self._base; the dmg
\* property of AtksPerRoundAdjustment and the hp property of
\* ResistantAdjustment are redefined without a setter, so assigning to them
\* raises AttributeError.  The result is the new objects or the exception.
RECURSIVE Set(_, _, _, _)
Set(objs, i, p, val) ==
    LET o == objs[i]
    IN  IF o.cls = "Monster"
        THEN [t |-> "ok", objs |->
                CASE p = "ac"  -> [objs EXCEPT ![i]._ac = val]
                  [] p = "hp"  -> [objs EXCEPT ![i]._hp = val]
                  [] p = "atk" -> [objs EXCEPT ![i]._atk = val]
                  [] p = "dc"  -> [objs EXCEPT ![i]._dc = val]
                  [] p = "dmg" -> [objs EXCEPT ![i]._dmg = val]]
        ELSE IF \/ o.cls = "AtksPerRoundAdjustment" /\ p = "dmg"
                \/ o.cls = "ResistantAdjustment" /\ p = "hp"
             THEN Raise("AttributeError", "Monster._set_stat_from_str")
        ELSE Set(objs, o._base, p, val)

\* The property that _set_stat_from_str assigns for a key of _threats
PropertyOf(stat_str) ==
    CASE stat_str = k_ac  -> "ac"
      [] stat_str = k_hp  -> "hp"
      [] stat_str = k_atk -> "atk"
      [] stat_str = k_dc  -> "dc"
      [] stat_str = k_dmg -> "dmg"

\* Monster._set_stat_from_str
_set_stat_from_str(objs, dicts, i, stat_str, val) ==
    IF stat_str \in DOMAIN dicts[objs[i]._threats]
    THEN Set(objs, i, PropertyOf(stat_str), val)
    ELSE [t |-> "ok", objs |-> objs]

\* Monster._get_base_stat_from_str: a QualityStat, None, or the exception
\* from_size raises.  hp and dmg pass self._size itself (a Count), where
\* __init__ passes int(self._size).
_get_base_stat_from_str(objs, dicts, i, stat_str) ==
    LET o == objs[i]
        base_tier == stats[o._base_tier]
    IN  IF stat_str \in DOMAIN dicts[o._threats]
        THEN IF stat_str = k_ac THEN base_tier.ac
             ELSE IF stat_str = k_hp THEN from_size(base_tier.hp, o._size)
             ELSE IF stat_str = k_atk THEN base_tier.atk
             ELSE IF stat_str = k_dc THEN base_tier.dc
             ELSE IF stat_str = k_dmg THEN from_size(base_tier.dmg, o._size)
             ELSE None
        ELSE None

\* The test that opens poor and good: stat_str not in self._threats
NotAStat(objs, dicts, i, stat_str) ==
    stat_str \notin DOMAIN dicts[objs[i]._threats]

\* A variant of UnknownStat in which a name that is no stat is an error
UnknownStat_Raises(objs, dicts) ==
    [exc |-> [type |-> "KeyError", at |-> "Monster.good"],
     objs |-> objs, dicts |-> dicts]

\* The bare return that ends poor and good for a name that is no key of
\* _threats (lines 344-345, 354-355): nothing changes, nothing is raised
UnknownStat(objs, dicts) == [exc |-> NoExc, objs |-> objs, dicts |-> dicts]

\* The body shared by Monster.poor (sign -1, base.poor) and Monster.good
\* (sign 1, base.good).  The result is the new objects and dicts with the
\* exception raised, if any; an exception leaves both as they were.
Adjust(objs, dicts, i, stat_str, sign) ==
    LET same == [exc |-> NoExc, objs |-> objs, dicts |-> dicts]
        ref  == objs[i]._threats
    IN  IF NotAStat(objs, dicts, i, stat_str) THEN UnknownStat(objs, dicts)
        ELSE IF dicts[ref][stat_str] = sign THEN same
        ELSE LET base == _get_base_stat_from_str(objs, dicts, i, stat_str)
             IN  IF IsRaise(base)
                 THEN [same EXCEPT !.exc = [type |-> base.type, at |-> base.at]]
                 ELSE IF IsNone(base) THEN same
                 ELSE LET val == IF sign = -1 THEN base.poor ELSE base.good
                          set == _set_stat_from_str(objs, dicts, i, stat_str, val)
                      IN  IF IsRaise(set)
                          THEN [same EXCEPT !.exc = [type |-> set.type, at |-> set.at]]
                          ELSE [exc |-> NoExc, objs |-> set.objs,
                                dicts |-> [dicts EXCEPT ![ref][stat_str] = sign]]

\* Monster.poor
poor(objs, dicts, i, stat_str) == Adjust(objs, dicts, i, stat_str, -1)

\* Monster.good
good(objs, dicts, i, stat_str) == Adjust(objs, dicts, i, stat_str, 1)

\* reduce(lambda acc, k: acc + self._threats[k], self._threats, 0)
RECURSIVE SumSigns(_, _)
SumSigns(d, n) ==
    IF n = 0 THEN 0 ELSE SumSigns(d, n - 1) + d[THREAT_STATS[n]]

\* The body of Monster.threat on the dict d
ThreatOf(d) ==
    LET s == SumSigns(d, Len(THREAT_STATS))
    IN  IF d[k_atk] = d[k_dc] THEN s - d[k_dc] ELSE s

\* Monster.threat, computed from the dict self._threats refers to
threat(objs, dicts, i) == ThreatOf(dicts[objs[i]._threats])

\* The label Monster.threat_str puts before " threat (n)"
ThreatLabel(n) ==
    IF n < -3 THEN "Trivial"
    ELSE IF -3 <= n /\ n <= -2 THEN "Low"
    ELSE IF -1 <= n /\ n <= 1 THEN "Medium"
    ELSE IF 2 <= n /\ n <= 3 THEN "High"
    ELSE IF 3 < n THEN "Extreme"
    ELSE "Unknown"

\* Monster.threat_str: the label and the number of f'{label} threat ({threat})'
threat_str(objs, dicts, i) ==
    LET n == threat(objs, dicts, i)
    IN  [label |-> ThreatLabel(n), threat |-> n]

\* Monster.size_str
size_str(objs, i) ==
    IF IsNone(objs[i]._size) THEN [label |-> "Uncountable (err)"]
    ELSE Count__str__(objs[i]._size)

\* Monster.__str__: the values the text shows, or the first exception a
\* getter raises.  The getters run in the order dc, ac, hp, atk, dmg
\* (lines 306-308); nothing is printed when one of them raises.
Monster__str__(objs, dicts, i) ==
    LET reads == <<Get(objs, i, "dc"), Get(objs, i, "ac"), Get(objs, i, "hp"),
                   Get(objs, i, "atk"), Get(objs, i, "dmg")>>
        bad   == {j \in 1..Len(reads) : IsRaise(reads[j])}
    IN  IF bad # {} THEN reads[CHOOSE j \in bad : \A h \in bad : j <= h]
        ELSE [t |-> "text",
              name   |-> Get(objs, i, "name"),
              tier   |-> stats[Get(objs, i, "tier").v].tier.name,
              size   |-> size_str(objs, i),
              threat |-> threat_str(objs, dicts, i),
              prof   |-> stats[Get(objs, i, "tier").v].tier.prof,
              dc  |-> reads[1].v, ac  |-> reads[2].v, hp |-> reads[3].v,
              atk |-> reads[4].v, dmg |-> reads[5].v]

\* ------------------------------------------------------------------------
\* Argument type functions.  Each returns its value or raises
\* argparse.ArgumentTypeError.
\* ------------------------------------------------------------------------
ArgumentTypeError(at) == Raise("ArgumentTypeError", at)

\* tier_arg: the index of the first tier whose name equals arg
tier_arg(arg) ==
    LET hits == {j \in 1..Len(stats) : Tier__eq__(stats[j].tier, arg)}
    IN  IF hits = {} THEN ArgumentTypeError("tier_arg")
        ELSE PyInt(CHOOSE j \in hits : \A h \in hits : j <= h)

\* level_arg: the index of the first tier whose range holds int(arg)
level_arg(arg) ==
    LET level == int(arg)
        hits  == {j \in 1..Len(stats) : Tier__contains__(stats[j].tier, level)}
    IN  IF hits = {} THEN ArgumentTypeError("level_arg")
        ELSE PyInt(CHOOSE j \in hits : \A h \in hits : j <= h)

tier_or_level_arg(arg) ==
    IF isnumeric(arg) THEN level_arg(arg) ELSE tier_arg(arg)

count_label_arg(arg) ==
    IF \E j \in 1..Len(RANGES) : lower(RANGES[j].label) = lower(arg)
    THEN from_label(RANGES[CHOOSE j \in 1..Len(RANGES) :
                              lower(RANGES[j].label) = lower(arg)].label)
    ELSE ArgumentTypeError("count_label_arg")

\* count_num_arg: what Count.from_int returns, None included
count_num_arg(arg) == from_int(int(arg))

count_arg(arg) ==
    IF isnumeric(arg) THEN count_num_arg(arg) ELSE count_label_arg(arg)

\* apr_arg: falls off the end, returning None, for any other word
apr_arg(arg) ==
    IF isnumeric(arg) THEN PyInt(int(arg))
    ELSE IF lower(arg) = <<"a","r","e","a">> THEN PyInt(2)
    ELSE IF lower(arg) = <<"d","o","t">> THEN PyInt(1)
    ELSE None

\* ------------------------------------------------------------------------
\* Inputs
\* ------------------------------------------------------------------------
Str(s) == [t |-> "str", v |-> s]

SeqsUpTo(S, n) == UNION {[1..m -> S] : m \in 0..n}

\* The stat names, one of them in capitals too, and a name that is no stat
StatArgs ==
    {THREAT_STATS[j] : j \in 1..Len(THREAT_STATS)}
    \cup {upper(k_ac), <<"x","p">>}

\* The stat names given on the command line in MainSpec
MainStatArgs == {k_ac, upper(k_ac), k_hp}

TierArgs == {Decimal(n) : n \in 0..MaxLevel}
            \cup {<<"E","P","I","C">>, <<"m","i","d">>}

CountArgs == {Decimal(n) : n \in 0..MaxCount}
             \cup {<<"P","a","r","t","y">>, <<"a","r","m","y">>,
                   <<"h","o","r","d","e">>, <<"-","1">>}

AprArgs == {Decimal(n) : n \in 0..MaxApr}
           \cup {<<"a","r","e","a">>, <<"D","O","T">>, <<"f","o","o">>}

NameArgs == {None, Str(<<"O","r","c">>)}

\* The name of the monsters of the object-level specification
ObjectNames == {Str(<<"O","r","c">>)}

\* The Count objects of the object-level specification: the default count
\* of every label that has one, and the largest count of the model
ObjectSizes ==
    {from_label(RANGES[j].label) : j \in {h \in 1..Len(RANGES) : IsInt(RANGES[h].r[3])}}
    \cup {from_int(MaxCount)}

\* The attacks per round of the decorators the object-level specification
\* builds: the value of the selector "area"
ObjectAprs == {apr_arg(<<"a","r","e","a">>)}

\* ------------------------------------------------------------------------
\* State
\* ------------------------------------------------------------------------
VARIABLES
    pc,     \* where the run is: "parse", "make", "adjust", "resist", "print",
            \* "done", "exit" (main); "object", "exit" (objects)
    exc,    \* the exception that ended the run, NoExc while there is none
    argv,   \* the command line, None when there is none
    args,   \* the Namespace parse_args returned, None before
    idx,    \* position in args.good followed by args.poor
    objs,   \* the Monster objects; main's variable monster is the last one
    dicts,  \* the _threats dicts
    out,    \* what print wrote, None before
    last    \* the latest call of good or poor: its name and its argument

vars == <<pc, exc, argv, args, idx, objs, dicts, out, last>>

NoCall == [op |-> "none", stat |-> <<>>]

\* AdjustedMonster(Monster(tier, size, name)), line 590: the objects and
\* dicts, or the exception Monster.__init__ raises
Construct(tier, size, name) ==
    LET m == Monster__init__(tier, size, name, 1)
    IN  IF IsRaise(m) THEN m
        ELSE LET a == AdjustedMonster__init__(<<m>>, "AdjustedMonster", 1, None, 2)
             IN  [t |-> "ok", objs |-> <<m, a>>,
                  dicts |-> <<NewThreats, NewThreats>>]

\* A further decorator around the outermost object
Wrapped(cls, apr) ==
    Append(objs, AdjustedMonster__init__(objs, cls, Len(objs), apr, Len(dicts) + 1))

\* ------------------------------------------------------------------------
\* The objects used through their methods
\* ------------------------------------------------------------------------
Init ==
    /\ pc = "object"
    /\ exc = NoExc
    /\ argv = None
    /\ args = None
    /\ idx = 0
    /\ out = None
    /\ last = NoCall
    /\ \E tier \in 1..Len(stats), size \in ObjectSizes, name \in ObjectNames :
         LET c == Construct(tier, size, name)
         IN  objs = c.objs /\ dicts = c.dicts

\* The effect of calling good or poor on object i with the result r
Called(op, stat_str, r) ==
    /\ last' = [op |-> op, stat |-> stat_str]
    /\ objs' = r.objs
    /\ dicts' = r.dicts
    /\ exc' = r.exc
    /\ pc' = IF r.exc = NoExc THEN pc ELSE "exit"

\* monster.good(stat_str)
CallGood(i, stat_str) ==
    /\ pc = "object"
    /\ Called("good", stat_str, good(objs, dicts, i, stat_str))
    /\ UNCHANGED <<argv, args, idx, out>>

\* monster.poor(stat_str)
CallPoor(i, stat_str) ==
    /\ pc = "object"
    /\ Called("poor", stat_str, poor(objs, dicts, i, stat_str))
    /\ UNCHANGED <<argv, args, idx, out>>

\* AtksPerRoundAdjustment(monster, apr)
NewAtksPerRound(apr) ==
    /\ pc = "object"
    /\ Len(objs) - 2 < MaxWraps
    /\ objs' = Wrapped("AtksPerRoundAdjustment", apr)
    /\ dicts' = Append(dicts, NewThreats)
    /\ UNCHANGED <<pc, exc, argv, args, idx, out, last>>

\* ResistantAdjustment(monster)
NewResistant ==
    /\ pc = "object"
    /\ Len(objs) - 2 < MaxWraps
    /\ objs' = Wrapped("ResistantAdjustment", None)
    /\ dicts' = Append(dicts, NewThreats)
    /\ UNCHANGED <<pc, exc, argv, args, idx, out, last>>

\* The object whose good and poor are called: the outermost decorator, which
\* is what main's variable monster refers to
Callees == {Len(objs)}

Next ==
    \/ \E i \in Callees, s \in StatArgs : CallGood(i, s)
    \/ \E i \in Callees, s \in StatArgs : CallPoor(i, s)
    \/ \E apr \in ObjectAprs : NewAtksPerRound(apr)
    \/ NewResistant

Spec == Init /\ [][Next]_vars

\* ------------------------------------------------------------------------
\* One run of the script
\* ------------------------------------------------------------------------
InitMain ==
    /\ pc = "parse"
    /\ exc = NoExc
    /\ argv \in [t : {"argv"}, tier : TierArgs, size : CountArgs, name : NameArgs,
                 good : SeqsUpTo(MainStatArgs, MaxStats),
                 poor : SeqsUpTo(MainStatArgs, MaxStats),
                 apr : {None} \cup {Str(a) : a \in AprArgs},
                 resist : BOOLEAN]
    /\ args = None
    /\ idx = 0
    /\ objs = <<>>
    /\ dicts = <<>>
    /\ out = None
    /\ last = NoCall

\* The Namespace parse_args builds, or the ArgumentTypeError of the first
\* type function that raises one.  --apr defaults to 1 when it is absent;
\* the name and the STAT values are kept as given.
Namespace(a) ==
    LET tier == tier_or_level_arg(a.tier)
        size == count_arg(a.size)
        apr  == IF IsNone(a.apr) THEN PyInt(1) ELSE apr_arg(a.apr.v)
    IN  IF IsRaise(tier) THEN tier
        ELSE IF IsRaise(size) THEN size
        ELSE IF IsRaise(apr) THEN apr
        ELSE [t |-> "Namespace", tier |-> tier.v, size |-> size, name |-> a.name,
              good |-> a.good, poor |-> a.poor, apr |-> apr, resist |-> a.resist]

\* args = parser.parse_args(): an ArgumentTypeError makes argparse print the
\* usage message and exit
ParseArgs ==
    /\ pc = "parse"
    /\ LET ns == Namespace(argv)
       IN  IF IsRaise(ns)
           THEN /\ exc' = [type |-> ns.type, at |-> ns.at]
                /\ pc' = "exit"
                /\ UNCHANGED args
           ELSE /\ args' = ns
                /\ pc' = "make"
                /\ UNCHANGED exc
    /\ UNCHANGED <<argv, idx, objs, dicts, out, last>>

\* monster = AdjustedMonster(Monster(args.tier, args.size, args.name))
MakeMonster ==
    /\ pc = "make"
    /\ LET c == Construct(args.tier, args.size, args.name)
       IN  IF IsRaise(c)
           THEN /\ exc' = [type |-> c.type, at |-> c.at]
                /\ pc' = "exit"
                /\ UNCHANGED <<objs, dicts, idx>>
           ELSE /\ objs' = c.objs
                /\ dicts' = c.dicts
                /\ idx' = 1
                /\ pc' = "adjust"
                /\ UNCHANGED exc
    /\ UNCHANGED <<argv, args, out, last>>

\* One turn of: for stat in args.good: monster.good(stat)
ApplyGood ==
    /\ pc = "adjust"
    /\ idx <= Len(args.good)
    /\ LET r == good(objs, dicts, Len(objs), args.good[idx])
       IN  /\ last' = [op |-> "good", stat |-> args.good[idx]]
           /\ objs' = r.objs
           /\ dicts' = r.dicts
           /\ exc' = r.exc
           /\ pc' = IF r.exc = NoExc THEN pc ELSE "exit"
    /\ idx' = idx + 1
    /\ UNCHANGED <<argv, args, out>>

\* One turn of: for stat in args.poor: monster.poor(stat)
ApplyPoor ==
    /\ pc = "adjust"
    /\ Len(args.good) < idx
    /\ idx <= Len(args.good) + Len(args.poor)
    /\ LET stat == args.poor[idx - Len(args.good)]
           r == poor(objs, dicts, Len(objs), stat)
       IN  /\ last' = [op |-> "poor", stat |-> stat]
           /\ objs' = r.objs
           /\ dicts' = r.dicts
           /\ exc' = r.exc
           /\ pc' = IF r.exc = NoExc THEN pc ELSE "exit"
    /\ idx' = idx + 1
    /\ UNCHANGED <<argv, args, out>>

\* monster = AtksPerRoundAdjustment(monster, args.apr)
WrapAtksPerRound ==
    /\ pc = "adjust"
    /\ idx > Len(args.good) + Len(args.poor)
    /\ objs' = Wrapped("AtksPerRoundAdjustment", args.apr)
    /\ dicts' = Append(dicts, NewThreats)
    /\ pc' = "resist"
    /\ UNCHANGED <<exc, argv, args, idx, out, last>>

\* if args.resist: monster = ResistantAdjustment(monster)
WrapResistant ==
    /\ pc = "resist"
    /\ args.resist
    /\ objs' = Wrapped("ResistantAdjustment", None)
    /\ dicts' = Append(dicts, NewThreats)
    /\ pc' = "print"
    /\ UNCHANGED <<exc, argv, args, idx, out, last>>

\* print(monster)
PrintMonster ==
    /\ \/ pc = "print"
       \/ pc = "resist" /\ ~args.resist
    /\ LET txt == Monster__str__(objs, dicts, Len(objs))
       IN  IF IsRaise(txt)
           THEN /\ exc' = [type |-> txt.type, at |-> txt.at]
                /\ pc' = "exit"
                /\ UNCHANGED out
           ELSE /\ out' = txt
                /\ pc' = "done"
                /\ UNCHANGED exc
    /\ UNCHANGED <<argv, args, idx, objs, dicts, last>>

NextMain ==
    \/ ParseArgs
    \/ MakeMonster
    \/ ApplyGood
    \/ ApplyPoor
    \/ WrapAtksPerRound
    \/ WrapResistant
    \/ PrintMonster

MainSpec == InitMain /\ [][NextMain]_vars

\* ------------------------------------------------------------------------
\* Properties.  The statements below are written from the specification's
\* words, with their own definitions of bands, signs and labels.
\* ------------------------------------------------------------------------
StatKeys == {THREAT_STATS[j] : j \in 1..Len(THREAT_STATS)}
StatProps == {"ac", "hp", "atk", "dc", "dmg"}
OtherProps == {"name", "tier"}

\* The sign map of the monster: the dict of the Monster object itself
Signs == dicts[objs[1]._threats]

\* The size band of a count: Solo=1, Pair=2, Party=3-6, Gang=7-10,
\* Mob=11-20, Army=21+
BandLabel(c) ==
    IF c = 1 THEN <<"s","o","l","o">>
    ELSE IF c = 2 THEN <<"p","a","i","r">>
    ELSE IF c \in 3..6 THEN <<"p","a","r","t","y">>
    ELSE IF c \in 7..10 THEN <<"g","a","n","g">>
    ELSE IF c \in 11..20 THEN <<"m","o","b">>
    ELSE IF c >= 21 THEN <<"a","r","m","y">>
    ELSE <<>>

\* The QualityBand of a size-indexed stat for a count: the band of the
\* count's size band, the Mob band again for an Army, and {1, 1, 1} for a
\* count that is not positive
SizedBand(sized, c) ==
    IF c = 1 THEN sized.solo
    ELSE IF c = 2 THEN sized.pair
    ELSE IF c \in 3..6 THEN sized.party
    ELSE IF c \in 7..10 THEN sized.gang
    ELSE IF c >= 11 THEN sized.mob
    ELSE QualityStat(1, 1, 1)

\* The QualityBand of a stat of the monster: at its tier, and for hp and
\* dmg the one its count selects
BandOf(k) ==
    LET ts == stats[objs[1]._base_tier]
        c  == objs[1]._size._int.v
    IN  CASE k = k_ac  -> ts.ac
          [] k = k_atk -> ts.atk
          [] k = k_dc  -> ts.dc
          [] k = k_hp  -> from_size(ts.hp, PyInt(c))
          [] k = k_dmg -> from_size(ts.dmg, PyInt(c))

BandValue(band, sign) ==
    IF sign = -1 THEN band.poor ELSE IF sign = 1 THEN band.good ELSE band.average

ValueOf(k) == Get(objs, 1, PropertyOf(k))

\* C1: after any sequence of setGood/setPoor calls every stat's value is
\* the poor, average or good value of its band, as its sign says, and the
\* calls on hp and dmg complete and leave the size-indexed poor/good value.
C1_ValuesFollowSigns ==
    /\ \A k \in StatKeys : ValueOf(k) = PyInt(BandValue(BandOf(k), Signs[k]))
    /\ exc.at # "SizedStat.from_size"
    /\ (last.op = "good" /\ last.stat \in {k_hp, k_dmg}) => Signs[last.stat] = 1
    /\ (last.op = "poor" /\ last.stat \in {k_hp, k_dmg}) => Signs[last.stat] = -1

\* C2: the sign and value of a stat are those of the last call that named
\* it: setGood(stat) leaves +1 and the good value and setPoor(stat) leaves
\* -1 and the poor value whatever came before, and a call repeated
\* immediately changes nothing.
C2_LastWriteWins ==
    [][\A i \in Callees, k \in StatKeys :
        /\ CallGood(i, k) =>
              /\ exc' = NoExc
              /\ dicts'[objs'[1]._threats][k] = 1
              /\ Get(objs', 1, PropertyOf(k)) = PyInt(BandOf(k).good)
              /\ (last = [op |-> "good", stat |-> k] => UNCHANGED <<objs, dicts>>)
        /\ CallPoor(i, k) =>
              /\ exc' = NoExc
              /\ dicts'[objs'[1]._threats][k] = -1
              /\ Get(objs', 1, PropertyOf(k)) = PyInt(BandOf(k).poor)
              /\ (last = [op |-> "poor", stat |-> k] => UNCHANGED <<objs, dicts>>)
      ]_vars

\* C3: STAT values are case-insensitive: good or poor with any spelling of
\* a stat name does what it does with the lower-case name.
C3_CaseInsensitive ==
    [][\A i \in Callees, s \in StatArgs :
        lower(s) \in StatKeys =>
          /\ CallGood(i, s) =>
                LET r == good(objs, dicts, i, lower(s))
                IN  objs' = r.objs /\ dicts' = r.dicts /\ exc' = r.exc
          /\ CallPoor(i, s) =>
                LET r == poor(objs, dicts, i, lower(s))
                IN  objs' = r.objs /\ dicts' = r.dicts /\ exc' = r.exc
      ]_vars

WrapOn(os, cls, b, apr) ==
    Append(os, AdjustedMonster__init__(os, cls, b, apr, 0))

PassedThrough(os, ds, i, b, props) ==
    /\ \A p \in props : Get(os, i, p) = Get(os, b, p)
    /\ ds[os[i]._threats] = ds[os[b]._threats]

\* Object i of os is object b with its dmg divided by a, rounded down
IsAttackCountOf(os, ds, i, b, a) ==
    /\ Get(os, i, "dmg") = PyInt(Get(os, b, "dmg").v \div a)
    /\ PassedThrough(os, ds, i, b, (StatProps \cup OtherProps) \ {"dmg"})
    /\ a = 1 => Get(os, i, "dmg") = Get(os, b, "dmg")

\* C5: the attack-count adjustment with apr >= 1 around a monster m has
\* dmg = floor(m.dmg / apr) and the name, tier, ac, hp, atk, dc and threat
\* signs of m, whatever adjustments m has had; apr = 1 changes nothing.
\* Stated of every such layer of the chain, and of a new layer with any
\* apr of 1..MaxApr put around the chain.
C5_AttackCount ==
    /\ \A i \in 1..Len(objs) :
          objs[i].cls = "AtksPerRoundAdjustment" =>
             IsAttackCountOf(objs, dicts, i, objs[i]._base, objs[i]._apr.v)
    /\ \A a \in 1..MaxApr :
          LET os == WrapOn(objs, "AtksPerRoundAdjustment", Len(objs), PyInt(a))
          IN  IsAttackCountOf(os, dicts, Len(os), Len(objs), a)

\* C5 witness: two attacks per round around a monster whose ac was set to
\* good and whose dmg is odd.
C5_Witness ==
    \E i \in 1..Len(objs) :
        /\ objs[i].cls = "AtksPerRoundAdjustment"
        /\ objs[i]._apr = PyInt(2)
        /\ Signs[k_ac] = 1
        /\ Get(objs, i, "ac") = PyInt(BandOf(k_ac).good)
        /\ Get(objs, objs[i]._base, "dmg").v % 2 = 1
        /\ Get(objs, i, "dmg").v * 2 + 1 = Get(objs, objs[i]._base, "dmg").v

\* Object i of os is object b with its hp halved, rounded down
IsResilientOf(os, ds, i, b) ==
    /\ Get(os, i, "hp") = PyInt(Get(os, b, "hp").v \div 2)
    /\ PassedThrough(os, ds, i, b, (StatProps \cup OtherProps) \ {"hp"})

FiveStats(os, i) == [p \in StatProps |-> Get(os, i, p)]

\* The five stats ar (attack count, then resilience) and ra (resilience,
\* then attack count) agree and are those of the monster, of stats of, with
\* hp halved and dmg divided by a
SameEitherOrder(ar, ra, of, a) ==
    /\ ar = ra
    /\ ar = [of EXCEPT !["hp"] = PyInt(of["hp"].v \div 2),
                       !["dmg"] = PyInt(of["dmg"].v \div a)]

\* C6: the resilience adjustment around a monster m has hp = floor(m.hp / 2)
\* and the other stats of m; resilience and attack count composed in either
\* order over the same monster give the same five stats: hp halved, dmg
\* divided by apr, ac, atk and dc untouched.  Stated of every resilience
\* layer of the chain, and of the two compositions put around the chain
\* with any apr of 1..MaxApr.
C6_Resilience ==
    /\ \A i \in 1..Len(objs) :
          objs[i].cls = "ResistantAdjustment" =>
             IsResilientOf(objs, dicts, i, objs[i]._base)
    /\ \A a \in 1..MaxApr :
          LET m == Len(objs)
          IN  SameEitherOrder(
                 FiveStats(WrapOn(WrapOn(objs, "AtksPerRoundAdjustment", m, PyInt(a)),
                                  "ResistantAdjustment", m + 1, None), m + 2),
                 FiveStats(WrapOn(WrapOn(objs, "ResistantAdjustment", m, None),
                                  "AtksPerRoundAdjustment", m + 1, PyInt(a)), m + 2),
                 FiveStats(objs, m), a)

\* C6 witness: a chain holding both adjustments, two attacks per round,
\* over a monster with odd hp and odd dmg and an adjusted dc.
C6_Witness ==
    /\ \E i \in 1..Len(objs) : objs[i].cls = "ResistantAdjustment"
    /\ \E i \in 1..Len(objs) :
          objs[i].cls = "AtksPerRoundAdjustment" /\ objs[i]._apr = PyInt(2)
    /\ ValueOf(k_hp).v % 2 = 1
    /\ ValueOf(k_dmg).v % 2 = 1
    /\ Signs[k_dc] = -1
    /\ Get(objs, Len(objs), "hp").v * 2 + 1 = ValueOf(k_hp).v
    /\ Get(objs, Len(objs), "dmg").v * 2 + 1 = ValueOf(k_dmg).v

\* Threat: the sum of the five signs, less the dc sign when the atk sign
\* equals the dc sign
ThreatRule(d) ==
    d[k_ac] + d[k_hp] + d[k_atk] + d[k_dc] + d[k_dmg]
        - (IF d[k_atk] = d[k_dc] THEN d[k_dc] ELSE 0)

\* Label: < -3 Trivial; -3..-2 Low; -1..1 Medium; 2..3 High; > 3 Extreme
LabelRule(n) ==
    CASE n < -3 -> "Trivial"
      [] n \in -3..-2 -> "Low"
      [] n \in -1..1 -> "Medium"
      [] n \in 2..3 -> "High"
      [] n > 3 -> "Extreme"

SignMaps == [StatKeys -> {-1, 0, 1}]

OnlyAtkDcGood == [k \in StatKeys |-> IF k \in {k_atk, k_dc} THEN 1 ELSE 0]
AllButDcPoor  == [k \in StatKeys |-> IF k = k_dc THEN 0 ELSE -1]

\* The threat and its label computed as the code computes them, on every
\* sign map
ThreatTable ==
    /\ \A d \in SignMaps :
          /\ ThreatOf(d) = ThreatRule(d)
          /\ ThreatLabel(ThreatOf(d)) = LabelRule(ThreatRule(d))
    /\ ThreatOf(OnlyAtkDcGood) = 1 /\ ThreatLabel(1) = "Medium"
    /\ ThreatOf(AllButDcPoor) = -4 /\ ThreatLabel(-4) = "Trivial"

\* C7: the threat read through any layer is the sum of the five current
\* signs, less the dc sign when the atk sign equals it, and its label is
\* Trivial / Low / Medium / High / Extreme by the ranges above; the signs
\* are those the latest setGood/setPoor left, whichever layer it was
\* called on.
C7_ThreatFromSigns ==
    /\ \A i \in 1..Len(objs) :
          /\ threat(objs, dicts, i) = ThreatRule(Signs)
          /\ threat_str(objs, dicts, i) =
                [label |-> LabelRule(ThreatRule(Signs)), threat |-> ThreatRule(Signs)]
    /\ (exc = NoExc /\ last.stat \in StatKeys) =>
          Signs[last.stat] = (IF last.op = "good" THEN 1 ELSE -1)
    /\ ThreatTable

\* C7 witness: only atk and dc good, read through three layers or more:
\* threat 1, Medium.
C7_Witness ==
    /\ Len(objs) >= 3
    /\ Signs = OnlyAtkDcGood
    /\ \A i \in 1..Len(objs) :
          threat_str(objs, dicts, i) = [label |-> "Medium", threat |-> 1]

\* A count argument written as an integer, and the integer
IsIntegerArg(a) ==
    isnumeric(a) \/ (Len(a) > 1 /\ a[1] = "-" /\ isnumeric(Tail(a)))

IntegerOf(a) == IF isnumeric(a) THEN int(a) ELSE 0 - int(Tail(a))

\* C8: for every integer count c, classifying c and building the base
\* monster never fails: 1, 2, 3-6, 7-10, 11-20, 21+ classify as Solo, Pair,
\* Party, Gang, Mob, Army, and a count that is not positive still yields a
\* monster rather than an error.
C8_ClassifyTotal ==
    (pc # "parse" /\ IsIntegerArg(argv.size)) =>
        /\ exc.at \notin {"count_label_arg", "Monster.__init__"}
        /\ ~IsNone(args) =>
              LET c == IntegerOf(argv.size)
              IN  /\ c >= 1 => /\ args.size.t = "Count"
                               /\ args.size._label = BandLabel(c)
                  /\ pc \notin {"make", "exit"} => Len(objs) > 0

\* C9: the band used for hp and dmg is solo for 1, pair for 2, party for
\* 3-6, gang for 7-10, mob for 11-20, the Mob band again for 21 and more,
\* and {1, 1, 1} only for a count that is not positive.
C9_SizedBands ==
    (Len(objs) > 0 /\ IsIntegerArg(argv.size)) =>
        LET ts == stats[objs[1]._base_tier]
            c  == IntegerOf(argv.size)
        IN  /\ objs[1]._hp = SizedBand(ts.hp, c).average
            /\ objs[1]._dmg = SizedBand(ts.dmg, c).average

\* A group-size selector that is neither a count of a size band nor the
\* label of a size band with a usable count
InvalidSize(a) ==
    IF IsIntegerArg(a) THEN IntegerOf(a) < 1
    ELSE \A j \in 1..Len(RANGES) :
            lower(a) = RANGES[j].label => IsNone(RANGES[j].r[3])

\* An attacks-per-round selector that is neither an integer >= 1 nor
\* "area" nor "dot"
InvalidApr(a) ==
    /\ ~IsNone(a)
    /\ ~(isnumeric(a.v) /\ int(a.v) >= 1)
    /\ lower(a.v) \notin {<<"a","r","e","a">>, <<"d","o","t">>}

\* C10: an invalid group-size or attacks-per-round selector ends the run
\* with an argument-validation error before any monster is built: the run
\* never gets past parsing with one.
C10_InvalidRejected ==
    (pc # "parse" /\ (InvalidSize(argv.size) \/ InvalidApr(argv.apr))) =>
        /\ pc = "exit"
        /\ exc.type = "ArgumentTypeError"
        /\ Len(objs) = 0

====
